---- MODULE Spec2Model ----
(***************************************************************************)
(* Client-side video stitching pipeline (src/vite.config.ts).              *)
(*                                                                         *)
(* The DOMContentLoaded handler is one async function.  Every `await` of   *)
(* the handler is a point where the handler is suspended: the model has    *)
(* one action per continuation (the code that runs between two awaits).    *)
(* The Media Engine (ffmpeg.wasm), its virtual file store, the network     *)
(* fetch and the <video> element are the environment: each awaited         *)
(* operation either resolves or rejects, chosen nondeterministically.      *)
(***************************************************************************)
EXTENDS Integers, Sequences, FiniteSets, TLC

\* ------------------------------------------------------------------ bounds
\* Progress events carry progress = k / ProgressSteps, k \in 0..ProgressSteps.
ProgressSteps == 2
\* How many deleteFile calls of one run may fail although the file exists.
MaxDeleteFaults == 1

\* ------------------------------------------------------- program constants
clips ==
  << "https://videos.pexels.com/video-files/7125369/7125369-sd_426_240_30fps.mp4",
     "https://videos.pexels.com/video-files/17700150/17700150-sd_426_240_30fps.mp4",
     "https://videos.pexels.com/video-files/34678935/14699130_640_360_50fps.mp4",
     "https://videos.pexels.com/video-files/20048065/20048065-sd_426_240_30fps.mp4" >>

AUDIO_SOURCE == "anullsrc=channel_layout=stereo:sample_rate=48000"

\* ------------------------------------------------------------- file names
RawName(index) == "raw-" \o ToString(index) \o ".mp4"
OutputName(index) == "stitch-ready-" \o ToString(index) \o ".mp4"
ProbeName(index) == "probe-audio-" \o ToString(index) \o ".aac"
ConcatName == "concat.txt"
StitchedName == "stitched.mp4"

\* --------------------------------------------------- strings and messages
\* A JavaScript error value: an Error with a message, or some other value.
Err(msg) == [isError |-> TRUE, message |-> msg]
NonError == [isError |-> FALSE, message |-> ""]

\* What a rejected engine call, fetch or write can throw.
Errors ==
  { Err("Stream map '0:a:0' matches no streams."),
    Err("Output file is empty, nothing was encoded"),
    Err("Aborted()"),
    Err(""),
    NonError }

UpperCase == "ABCDEFGHIJKLMNOPQRSTUVWXYZ"
LowerCase == "abcdefghijklmnopqrstuvwxyz"

LowerChar(c) ==
  IF \E k \in 1..Len(UpperCase) : SubSeq(UpperCase, k, k) = c
    THEN LET k == CHOOSE k \in 1..Len(UpperCase) : SubSeq(UpperCase, k, k) = c
         IN  SubSeq(LowerCase, k, k)
    ELSE c

\* String.prototype.toLowerCase: the first k characters of s in lower case, for
\* every k up to the length of s.
toLowerCase(s) ==
  LET lower[k \in 0..Len(s)] ==
        IF k = 0 THEN "" ELSE lower[k - 1] \o LowerChar(SubSeq(s, k, k))
  IN  lower[Len(s)]

includes(s, needle) ==
  \E k \in 1..(Len(s) - Len(needle) + 1) : SubSeq(s, k, k + Len(needle) - 1) = needle

\* Math.round(progress * 100) for progress = k / ProgressSteps (round half up).
RoundPct(k) == (200 * k + ProgressSteps) \div (2 * ProgressSteps)

\* Number.prototype.toFixed(1) of a duration given in tenths of a second.
toFixed1(tenths) == ToString(tenths \div 10) \o "." \o ToString(tenths % 10)

\* Durations (tenths of a second) the player can report for the stitched file.
Durations == {305}

\* ------------------------------------------------------- engine operations
Op(kind, args, data) == [op |-> kind, args |-> args, data |-> data]

Load == Op("load", <<>>, <<>>)
Fetch(url) == Op("fetch", <<url>>, <<>>)
WriteFile(name, data) == Op("writeFile", <<name>>, data)
ReadFile(name) == Op("readFile", <<name>>, <<>>)
DeleteFile(name) == Op("deleteFile", <<name>>, <<>>)
Exec(args) == Op("exec", args, <<>>)

ProbeArgs(filename, probeFile) ==
  <<"-y", "-i", filename, "-map", "0:a:0", "-c", "copy", "-frames:a", "1", probeFile>>

\* Mutant of RemuxArgs: the remux command leaves the sample rate of the source.
RemuxArgsNoResample(filename, output) ==
  <<"-y", "-i", filename, "-c:v", "copy", "-c:a", "aac", "-ac", "2",
    "-movflags", "+faststart", output>>

RemuxArgs(filename, output) ==
  <<"-y", "-i", filename, "-c:v", "copy", "-c:a", "aac", "-ar", "48000", "-ac", "2",
    "-movflags", "+faststart", output>>

SynthArgs(filename, output) ==
  <<"-y", "-i", filename, "-f", "lavfi", "-i", AUDIO_SOURCE, "-shortest",
    "-map", "0:v:0", "-map", "1:a:0", "-c:v", "copy", "-c:a", "aac",
    "-ar", "48000", "-ac", "2", "-movflags", "+faststart", output>>

JoinArgs ==
  <<"-y", "-f", "concat", "-safe", "0", "-i", ConcatName, "-c", "copy",
    "-movflags", "+faststart", StitchedName>>

\* Mutant of ManifestLines: the lines come out in reverse order.
ManifestLinesReversed(files) ==
  [j \in 1..Len(files) |-> "file '" \o files[Len(files) + 1 - j] \o "'"]

\* files.map((name) => `file '${name}'`), one entry per line of the manifest.
ManifestLines(files) == [j \in 1..Len(files) |-> "file '" \o files[j] \o "'"]

\* ----------------------------------------------------------- file contents
\* A file's content is a sequence of chunks; byteLength > 0 iff it is non-empty.
MediaBytes(what) == <<what>>
EmptyBytes == <<>>

\* The store is a function from the names of the files present to contents.
StoreWrite(st, name, data) == [f \in DOMAIN st \cup {name} |-> IF f = name THEN data ELSE st[f]]
StoreDelete(st, name) == [f \in DOMAIN st \ {name} |-> st[f]]

\* What a command may leave at its output path: nothing new, an empty file, data.
Effects == {"none", "empty", "data"}
ApplyEffect(st, name, effect) ==
  CASE effect = "none" -> st
    [] effect = "empty" -> StoreWrite(st, name, EmptyBytes)
    [] effect = "data" -> StoreWrite(st, name, MediaBytes(name))

\* new Set(array) / Set.prototype.add, kept in insertion order.
SetAdd(seq, x) == IF \E k \in 1..Len(seq) : seq[k] = x THEN seq ELSE Append(seq, x)
RECURSIVE SetFrom(_)
SetFrom(seq) ==
  IF Len(seq) = 0 THEN <<>>
  ELSE SetAdd(SetFrom(SubSeq(seq, 1, Len(seq) - 1)), seq[Len(seq)])
Range(seq) == {seq[k] : k \in 1..Len(seq)}

VARIABLES
  pc,             \* where the handler is suspended
  ffmpegReady,    \* let ffmpegReady
  objectUrl,      \* let objectUrl ("" is undefined)
  liveUrls,       \* object URLs created and not revoked
  store,          \* the engine's virtual file store
  pending,        \* operations issued and not yet settled, oldest first
  status,         \* elements.status.textContent
  lengthBadge,    \* elements.lengthBadge.textContent
  videoSrc,       \* elements.video.src
  listeners,      \* listeners registered on elements.video
  written,        \* downloadClips: written
  rawFiles,       \* handler: rawFiles
  cleanupFiles,   \* handler: cleanupFiles (a Set, in insertion order)
  concatSources,  \* handler: concatSources
  i,              \* loop index of the running loop
  data,           \* clipHasAudio: data (<<>> is null, <<bytes>> otherwise)
  error,          \* clipHasAudio: the caught error
  console,        \* console levels written so far
  log,            \* history: operations in the order they were issued
  failedAt,       \* history: the await whose failure reached the handler ("" if none)
  failureWrites,  \* history: number of failure messages written to the status
  drainRuns,      \* history: number of times the ledger drain was started
  deleteFaults    \* history: deleteFile calls that failed on an existing file

vars == <<pc, ffmpegReady, objectUrl, liveUrls, store, pending, status, lengthBadge,
          videoSrc, listeners, written, rawFiles, cleanupFiles, concatSources, i,
          data, error, console, log, failedAt, failureWrites, drainRuns,
          deleteFaults>>

domVars == <<lengthBadge, videoSrc, listeners, objectUrl, liveUrls>>
probeVars == <<data, error>>
loopVars == <<written, rawFiles, cleanupFiles, concatSources, i>>
histVars == <<failedAt, failureWrites, drainRuns>>

Init ==
  \* lines 34-42: the module throws when a required DOM node is missing and the
  \* handler is never registered.
  /\ pc \in {"Idle", "Aborted"}
  /\ ffmpegReady = FALSE
  /\ objectUrl = ""
  /\ liveUrls = {}
  /\ store = << >>
  /\ pending = <<>>
  /\ status = ""
  /\ lengthBadge = ""
  /\ videoSrc = ""
  /\ listeners = {}
  /\ written = <<>>
  /\ rawFiles = <<>>
  /\ cleanupFiles = <<>>
  /\ concatSources = <<>>
  /\ i = 0
  /\ data = <<>>
  /\ error = NonError
  /\ console = {}
  /\ log = <<>>
  /\ failedAt = ""
  /\ failureWrites = 0
  /\ drainRuns = 0
  /\ deleteFaults = 0

\* ------------------------------------------------------------ fragments
\* `await op`: the handler issues op and is suspended at `label`.
Await(label, op) ==
  /\ pc' = label
  /\ pending' = <<op>>
  /\ log' = Append(log, op)

\* The name a command writes: the last argument of its argument vector.
OutputOf(op) == op.args[Len(op.args)]

\* lines 74-77: the catch block of the handler.
FailureMessage(e) ==
  IF e.isError THEN "Failed: " \o e.message ELSE "Failed to process clips."

Catch(e) ==
  /\ pc' = "Failed"
  /\ console' = console \cup {"error"}
  /\ status' = FailureMessage(e)
  /\ failureWrites' = failureWrites + 1

\* lines 69-70 and 176-179: the loop is over; stitch(concatSources) up to its
\* first await.
stitch(files) ==
  /\ status' = "Concatenating clips (copy mode)..."
  /\ Await("writeManifest", WriteFile(ConcatName, ManifestLines(files)))

\* Mutant of normalizeLoop: the loop test is off by one and the last clip is
\* never normalized.
normalizeLoopSkipsLast(k, rf, cf, cs, s) ==
  /\ rawFiles' = rf
  /\ cleanupFiles' = cf
  /\ concatSources' = cs
  /\ i' = k
  /\ IF k < Len(rf) - 1
       THEN /\ status' = s
            /\ Await("probeExec", Exec(ProbeArgs(rf[k + 1], ProbeName(k))))
       ELSE stitch(cs)

\* lines 62-64, 103-105 and 158-161: the loop test of the normalization loop and,
\* for the next clip, ensureAudioTrack and clipHasAudio up to the probe command.
normalizeLoop(k, rf, cf, cs, s) ==
  /\ rawFiles' = rf
  /\ cleanupFiles' = cf
  /\ concatSources' = cs
  /\ i' = k
  /\ IF k < Len(rf)
       THEN /\ status' = s
            /\ Await("probeExec", Exec(ProbeArgs(rf[k + 1], ProbeName(k))))
       ELSE stitch(cs)

\* lines 91-95 and 100, then 58-60: the loop test of the download loop; when the
\* loop is over downloadClips returns `written` and the handler builds its ledger.
downloadLoop(k, w, s) ==
  /\ written' = w
  /\ IF k < Len(clips)
       THEN /\ status' = "Downloading clip " \o ToString(k + 1) \o "/" \o ToString(Len(clips))
            /\ Await("fetch", Fetch(clips[k + 1]))
            /\ i' = k
            /\ UNCHANGED <<rawFiles, cleanupFiles, concatSources>>
       ELSE normalizeLoop(0, w, SetFrom(w), <<>>, s)

\* lines 80-85 and 87-89: ensureCore, then downloadClips up to its first await.
ensureCore ==
  IF ffmpegReady
    THEN downloadLoop(0, <<>>, "Fetching clips...")
    ELSE /\ status' = "Loading..."
         /\ Await("load", Load)
         /\ UNCHANGED loopVars

\* ffmpeg.deleteFile(name): rejects when the file is missing; `fault` makes it
\* reject although the file exists, leaving the file in place.
DeleteRejects(st, name, fault) == name \notin DOMAIN st \/ fault
AfterDelete(st, name, fault) ==
  IF DeleteRejects(st, name, fault) THEN st ELSE StoreDelete(st, name)
FaultChoices(name) ==
  IF name \in DOMAIN store /\ deleteFaults < MaxDeleteFaults THEN {FALSE, TRUE} ELSE {FALSE}

\* ---------------------------------------------------------------- actions
\* line 55-57: the handler starts.
DOMContentLoaded ==
  /\ pc = "Idle"
  /\ ensureCore
  /\ UNCHANGED <<ffmpegReady, store, console, deleteFaults,
                 domVars, probeVars, histVars>>

\* Mutant of LoadResolved: line 84 is missing, the readiness flag stays false.
LoadResolvedFlagUnset ==
  /\ pc = "load"
  /\ LET op == Head(pending) IN
       /\ downloadLoop(0, <<>>, "Fetching clips...")
  /\ UNCHANGED <<ffmpegReady, store, console, deleteFaults, domVars, probeVars, histVars>>

\* lines 83-84: ffmpeg.load() resolved.
LoadResolved ==
  /\ pc = "load"
  /\ LET op == Head(pending) IN
       /\ ffmpegReady' = TRUE
       /\ downloadLoop(0, <<>>, "Fetching clips...")
  /\ UNCHANGED <<store, console, deleteFaults, domVars, probeVars, histVars>>

\* lines 95-96: fetchFile(url) resolved with the clip's bytes.
FetchResolved ==
  /\ pc = "fetch"
  /\ LET op == Head(pending) IN
       /\ Await("writeRaw", WriteFile(RawName(i), MediaBytes(op.args[1])))
  /\ UNCHANGED <<ffmpegReady, store, status, console, deleteFaults,
                 loopVars, domVars, probeVars, histVars>>

\* lines 96-97: ffmpeg.writeFile(filename, data) resolved.
WriteRawResolved ==
  /\ pc = "writeRaw"
  /\ LET op == Head(pending) IN
       /\ store' = StoreWrite(store, OutputOf(op), op.data)
       /\ downloadLoop(i + 1, Append(written, OutputOf(op)), status)
  /\ UNCHANGED <<ffmpegReady, console, deleteFaults, domVars, probeVars, histVars>>

\* line 161-162: the probe command resolved; it may have left nothing, an empty
\* file or data at the scratch path.
ProbeExecResolved ==
  /\ pc = "probeExec"
  /\ LET op == Head(pending) IN \E effect \in Effects :
       /\ store' = ApplyEffect(store, OutputOf(op), effect)
       /\ Await("probeRead", ReadFile(ProbeName(i)))
  /\ UNCHANGED <<ffmpegReady, status, console, deleteFaults, loopVars, domVars,
                 probeVars, histVars>>

\* lines 165-166: the probe command rejected; the catch block keeps the error and
\* deletes the scratch file.
ProbeExecRejected ==
  /\ pc = "probeExec"
  /\ LET op == Head(pending) IN \E e \in Errors, effect \in Effects :
       /\ store' = ApplyEffect(store, OutputOf(op), effect)
       /\ error' = e
       /\ Await("probeCatchDelete", DeleteFile(ProbeName(i)))
  /\ UNCHANGED <<ffmpegReady, status, console, deleteFaults, loopVars, domVars,
                 data, histVars>>

\* Mutant of ProbeReadSettled: safeDelete is called with the clip's file name
\* instead of the scratch file's.
ProbeReadSettledDeletesClip ==
  /\ pc = "probeRead"
  /\ LET op == Head(pending) IN \E rejected \in BOOLEAN :
       /\ rejected \/ OutputOf(op) \in DOMAIN store
       /\ data' = IF rejected THEN <<>> ELSE <<store[OutputOf(op)]>>
       /\ Await("probeDelete", DeleteFile(rawFiles[i + 1]))
  /\ UNCHANGED <<ffmpegReady, store, status, console, deleteFaults,
                 loopVars, domVars, error, histVars>>

\* lines 162-163: ffmpeg.readFile(probeFile).catch(() => null) settled.  The read
\* rejects when the file is missing, and may reject for any other reason.
ProbeReadSettled ==
  /\ pc = "probeRead"
  /\ LET op == Head(pending) IN \E rejected \in BOOLEAN :
       /\ rejected \/ OutputOf(op) \in DOMAIN store
       /\ data' = IF rejected THEN <<>> ELSE <<store[OutputOf(op)]>>
       /\ Await("probeDelete", DeleteFile(ProbeName(i)))
  /\ UNCHANGED <<ffmpegReady, store, status, console, deleteFaults,
                 loopVars, domVars, error, histVars>>

\* Mutant of HasBytes: Boolean(data), the length of the data is not looked at.
HasBytesNotNull(d) == Len(d) > 0

\* line 164: Boolean(data && data.byteLength > 0).
HasBytes(d) == Len(d) > 0 /\ Len(d[1]) > 0

\* lines 167-172: the classification of a probe failure; TRUE when it warns.
ProbeWarns(e) ==
  \A message \in {IF e.isError THEN toLowerCase(e.message) ELSE ""} :
    ~(includes(message, "matches no streams") \/ includes(message, "output file is empty"))

\* lines 107-153: ensureAudioTrack after clipHasAudio returned.
NormalizeArgs(hasAudio, filename, output) ==
  IF hasAudio THEN RemuxArgs(filename, output) ELSE SynthArgs(filename, output)

NormalizeStatus(hasAudio, index) ==
  IF hasAudio
    THEN "Clip " \o ToString(index + 1) \o ": remuxing source audio"
    ELSE "Clip " \o ToString(index + 1) \o ": injecting silent audio track"

ensureAudioTrack(hasAudio) ==
  /\ status' = NormalizeStatus(hasAudio, i)
  /\ Await("normalize", Exec(NormalizeArgs(hasAudio, rawFiles[i + 1], OutputName(i))))

\* lines 163-164 and 213-219: safeDelete(probeFile) settled on the try path.
ProbeDeleteSettled ==
  /\ pc = "probeDelete"
  /\ LET op == Head(pending) IN \E fault \in FaultChoices(ProbeName(i)) :
       /\ store' = AfterDelete(store, OutputOf(op), fault)
       /\ deleteFaults' = IF fault THEN deleteFaults + 1 ELSE deleteFaults
       /\ ensureAudioTrack(HasBytes(data))
       /\ data' = <<>>
  /\ UNCHANGED <<ffmpegReady, console, loopVars, domVars, error, histVars>>

\* lines 166-172 and 213-219: safeDelete(probeFile) settled in the catch block.
ProbeCatchDeleteSettled ==
  /\ pc = "probeCatchDelete"
  /\ LET op == Head(pending) IN \E fault \in FaultChoices(ProbeName(i)) :
       /\ store' = AfterDelete(store, OutputOf(op), fault)
       /\ deleteFaults' = IF fault THEN deleteFaults + 1 ELSE deleteFaults
       /\ console' = IF ProbeWarns(error) THEN console \cup {"warn"} ELSE console
       /\ ensureAudioTrack(FALSE)
       /\ error' = NonError
  /\ UNCHANGED <<ffmpegReady, loopVars, domVars, data, histVars>>

\* lines 125/155 and 65-66: the normalization command resolved.
NormalizeResolved ==
  /\ pc = "normalize"
  /\ LET op == Head(pending) IN
       /\ store' = ApplyEffect(store, OutputOf(op), "data")
       /\ normalizeLoop(i + 1, rawFiles, SetAdd(cleanupFiles, OutputOf(op)),
                        Append(concatSources, OutputOf(op)), status)
  /\ UNCHANGED <<ffmpegReady, console, deleteFaults, written, domVars, probeVars,
                 histVars>>

\* lines 179-180: the manifest is written; the join command is issued.
WriteManifestResolved ==
  /\ pc = "writeManifest"
  /\ LET op == Head(pending) IN
       /\ store' = StoreWrite(store, OutputOf(op), op.data)
       /\ Await("join", Exec(JoinArgs))
  /\ UNCHANGED <<ffmpegReady, status, console, deleteFaults, loopVars, domVars,
                 probeVars, histVars>>

\* Mutant of JoinResolved: the final output is registered in the ledger like the
\* transient files.
JoinResolvedRegistersOutput ==
  /\ pc = "join"
  /\ LET op == Head(pending) IN
       /\ store' = ApplyEffect(store, OutputOf(op), "data")
       /\ cleanupFiles' = SetAdd(cleanupFiles, OutputOf(op))
       /\ Await("manifestDelete", DeleteFile(ConcatName))
  /\ UNCHANGED <<ffmpegReady, status, console, deleteFaults, written, rawFiles,
                 concatSources, i, domVars, probeVars, histVars>>

\* lines 180-181: the join command resolved; the manifest is deleted.
JoinResolved ==
  /\ pc = "join"
  /\ LET op == Head(pending) IN
       /\ store' = ApplyEffect(store, OutputOf(op), "data")
       /\ Await("manifestDelete", DeleteFile(ConcatName))
  /\ UNCHANGED <<ffmpegReady, status, console, deleteFaults, loopVars, domVars,
                 probeVars, histVars>>

\* lines 181 and 185-188: safeDelete('concat.txt') settled; stitch returns and
\* presentResult runs up to its first await.
ManifestDeleteSettled ==
  /\ pc = "manifestDelete"
  /\ LET op == Head(pending) IN \E fault \in FaultChoices(ConcatName) :
       /\ store' = AfterDelete(store, OutputOf(op), fault)
       /\ deleteFaults' = IF fault THEN deleteFaults + 1 ELSE deleteFaults
       /\ liveUrls' = IF objectUrl # "" THEN liveUrls \ {objectUrl} ELSE liveUrls
       /\ Await("readStitched", ReadFile(StitchedName))
  /\ UNCHANGED <<ffmpegReady, status, console, loopVars, lengthBadge,
                 videoSrc, listeners, objectUrl, probeVars, histVars>>

\* line 73: the last statement of the try block.
Done ==
  /\ pc' = "Done"
  /\ status' = "Done. Press play!"

\* line 72: Promise.all(Array.from(cleanupFiles).map(safeDelete)); every
\* safeDelete runs up to its own await before Promise.all is awaited.
drain ==
  /\ drainRuns' = drainRuns + 1
  /\ log' = log \o [k \in 1..Len(cleanupFiles) |-> DeleteFile(cleanupFiles[k])]
  /\ pending' = [k \in 1..Len(cleanupFiles) |-> DeleteFile(cleanupFiles[k])]
  /\ IF cleanupFiles = <<>>
       THEN Done
       ELSE pc' = "drain" /\ status' = status

\* Mutant of ReadStitchedResolved: presentResult does not wait for the player's
\* metadata event, so the drain starts as soon as the player is bound.
ReadStitchedResolvedNoWait ==
  /\ pc = "readStitched"
  /\ LET op == Head(pending) IN
       /\ OutputOf(op) \in DOMAIN store
       /\ objectUrl' = "blob:" \o OutputOf(op)
       /\ liveUrls' = liveUrls \cup {objectUrl'}
       /\ videoSrc' = objectUrl'
       /\ listeners' = {"loadedmetadata", "error"}
       /\ drain
  /\ UNCHANGED <<ffmpegReady, store, console, deleteFaults, loopVars, lengthBadge,
                 probeVars, failedAt, failureWrites>>

\* Mutant of ReadStitchedResolved: presentResult registers no listener on the
\* player before it waits.
ReadStitchedResolvedNoListeners ==
  /\ pc = "readStitched"
  /\ LET op == Head(pending) IN
       /\ OutputOf(op) \in DOMAIN store
       /\ objectUrl' = "blob:" \o OutputOf(op)
       /\ liveUrls' = liveUrls \cup {objectUrl'}
       /\ videoSrc' = objectUrl'
       /\ listeners' = {}
       /\ pc' = "metadata"
       /\ pending' = <<>>
  /\ UNCHANGED <<ffmpegReady, store, status, console, log, deleteFaults,
                 loopVars, lengthBadge, probeVars, histVars>>

\* lines 188-209: the stitched file is read; the player is bound to a new object
\* URL and presentResult waits for 'loadedmetadata' or 'error'.
ReadStitchedResolved ==
  /\ pc = "readStitched"
  /\ LET op == Head(pending) IN
       /\ OutputOf(op) \in DOMAIN store
       /\ objectUrl' = "blob:" \o OutputOf(op)
       /\ liveUrls' = liveUrls \cup {objectUrl'}
       /\ videoSrc' = objectUrl'
       /\ listeners' = {"loadedmetadata", "error"}
       /\ pc' = "metadata"
       /\ pending' = <<>>
  /\ UNCHANGED <<ffmpegReady, store, status, console, log, deleteFaults,
                 loopVars, lengthBadge, probeVars, histVars>>

\* lines 194-198, then 72: 'loadedmetadata' fired.
onLoaded ==
  /\ pc = "metadata"
  /\ "loadedmetadata" \in listeners
  /\ \E d \in Durations : lengthBadge' = "duration: " \o toFixed1(d) \o "s"
  /\ listeners' = {}
  /\ drain
  /\ UNCHANGED <<ffmpegReady, store, console, deleteFaults,
                 loopVars, videoSrc, objectUrl, liveUrls, probeVars, failedAt,
                 failureWrites>>

\* lines 199-202, then 74-77: 'error' fired.
onError ==
  /\ pc = "metadata"
  /\ "error" \in listeners
  /\ listeners' = {}
  /\ failedAt' = pc
  /\ Catch(Err("Could not load stitched video metadata."))
  /\ UNCHANGED <<ffmpegReady, store, pending, log, deleteFaults,
                 loopVars, lengthBadge, videoSrc, objectUrl, liveUrls, probeVars,
                 drainRuns>>

\* Mutant of DrainDeleteSettled: safeDelete has no try/catch, a rejected
\* deleteFile rejects Promise.all and reaches the handler's catch block.
DrainDeleteUnsafe ==
  /\ pc = "drain"
  /\ LET op == Head(pending) IN \E fault \in FaultChoices(OutputOf(op)) :
       /\ store' = AfterDelete(store, OutputOf(op), fault)
       /\ deleteFaults' = IF fault THEN deleteFaults + 1 ELSE deleteFaults
       /\ pending' = Tail(pending)
       /\ IF DeleteRejects(store, OutputOf(op), fault)
            THEN /\ failedAt' = pc
                 /\ Catch(Err("ErrnoError: FS error"))
            ELSE /\ IF pending' = <<>> THEN Done ELSE UNCHANGED <<pc, status>>
                 /\ UNCHANGED <<console, failedAt, failureWrites>>
  /\ UNCHANGED <<ffmpegReady, log, loopVars, domVars, probeVars, drainRuns>>

\* lines 213-219 and 72-73: one safeDelete of the drain settled; when it is the
\* last one Promise.all resolves and the run is done.
DrainDeleteSettled ==
  /\ pc = "drain"
  /\ LET op == Head(pending) IN \E fault \in FaultChoices(OutputOf(op)) :
       /\ store' = AfterDelete(store, OutputOf(op), fault)
       /\ deleteFaults' = IF fault THEN deleteFaults + 1 ELSE deleteFaults
       /\ pending' = Tail(pending)
       /\ IF pending' = <<>> THEN Done ELSE UNCHANGED <<pc, status>>
  /\ UNCHANGED <<ffmpegReady, console, log, loopVars, domVars, probeVars,
                 histVars>>

\* Mutant of FatalAwaits: clipHasAudio has no try/catch around the probe command.
FatalAwaitsWithProbe == {"load", "fetch", "writeRaw", "probeExec", "normalize",
                         "writeManifest", "join", "readStitched"}

\* The awaits whose rejection is not caught before the handler's catch block.
FatalAwaits == {"load", "fetch", "writeRaw", "normalize", "writeManifest", "join",
                "readStitched"}

\* Mutant of Rejected: a rejected command is caught where it is awaited and the
\* handler goes on as if the command had resolved.
RejectedCommandSwallowed ==
  /\ pc \in FatalAwaits
  /\ LET op == Head(pending) IN \E e \in Errors :
       \E effect \in (IF op.op = "exec" THEN Effects ELSE {"none"}) :
       /\ store' = ApplyEffect(store, OutputOf(op), effect)
       /\ failedAt' = pc
       /\ CASE pc = "normalize" ->
                 /\ normalizeLoop(i + 1, rawFiles, SetAdd(cleanupFiles, OutputOf(op)),
                                  Append(concatSources, OutputOf(op)), status)
                 /\ UNCHANGED <<written, console, failureWrites>>
            [] pc = "join" ->
                 /\ Await("manifestDelete", DeleteFile(ConcatName))
                 /\ UNCHANGED <<loopVars, status, console, failureWrites>>
            [] OTHER ->
                 /\ pending' = <<>>
                 /\ Catch(e)
                 /\ UNCHANGED <<log, loopVars>>
  /\ UNCHANGED <<ffmpegReady, deleteFaults, domVars, probeVars, drainRuns>>

\* lines 74-77: an awaited operation rejected and nothing caught the error before
\* the handler's catch block.  A rejected command may have left output behind.
Rejected ==
  /\ pc \in FatalAwaits
  /\ LET op == Head(pending) IN \E e \in Errors :
       \E effect \in (IF op.op = "exec" THEN Effects ELSE {"none"}) :
       /\ store' = ApplyEffect(store, OutputOf(op), effect)
       /\ pending' = <<>>
       /\ failedAt' = pc
       /\ Catch(e)
  /\ UNCHANGED <<ffmpegReady, log, deleteFaults, loopVars, domVars, probeVars,
                 drainRuns>>

\* What a progress event can carry: a number k / ProgressSteps, or no number.
ProgressPayloads ==
  {[isNumber |-> TRUE, k |-> k] : k \in 0..ProgressSteps} \cup {[isNumber |-> FALSE, k |-> 0]}

\* Mutant of progress: the engine delivers progress events at any time, also
\* after the command they belong to has settled.
progressAnyTime ==
  /\ \E p \in ProgressPayloads :
       status' = IF p.isNumber
                   THEN "Processing... " \o ToString(RoundPct(p.k)) \o "%"
                   ELSE status
  /\ UNCHANGED <<pc, ffmpegReady, objectUrl, liveUrls, store, pending, lengthBadge,
                 videoSrc, listeners, written, rawFiles, cleanupFiles, concatSources,
                 i, data, error, console, log, failedAt,
                 failureWrites, drainRuns, deleteFaults>>

\* lines 48-53: the engine reports progress while a command runs.
progress ==
  /\ \E k \in 1..Len(pending) : pending[k].op = "exec"
  /\ \E p \in ProgressPayloads :
       status' = IF p.isNumber
                   THEN "Processing... " \o ToString(RoundPct(p.k)) \o "%"
                   ELSE status
  /\ UNCHANGED <<pc, ffmpegReady, objectUrl, liveUrls, store, pending, lengthBadge,
                 videoSrc, listeners, written, rawFiles, cleanupFiles, concatSources,
                 i, data, error, console, log, failedAt,
                 failureWrites, drainRuns, deleteFaults>>

Next ==
  \/ DOMContentLoaded
  \/ LoadResolved
  \/ FetchResolved
  \/ WriteRawResolved
  \/ ProbeExecResolved
  \/ ProbeExecRejected
  \/ ProbeReadSettled
  \/ ProbeDeleteSettled
  \/ ProbeCatchDeleteSettled
  \/ NormalizeResolved
  \/ WriteManifestResolved
  \/ JoinResolved
  \/ ManifestDeleteSettled
  \/ ReadStitchedResolved
  \/ onLoaded
  \/ onError
  \/ DrainDeleteSettled
  \/ Rejected
  \/ progress

Spec == Init /\ [][Next]_vars

\* ------------------------------------------------------ derived history
Indexes == 0..(Len(clips) - 1)
Issued == Range(log)
Settled == Issued \ Range(pending)

ProbeOp(k) == Exec(ProbeArgs(RawName(k), ProbeName(k)))
RemuxOp(k) == Exec(RemuxArgs(RawName(k), OutputName(k)))
SynthOp(k) == Exec(SynthArgs(RawName(k), OutputName(k)))
JoinOp == Exec(JoinArgs)
NormalizeOps(k) == {RemuxOp(k), SynthOp(k)}

\* How many times op was issued.
TimesIssued(op) == Cardinality({n \in 1..Len(log) : log[n] = op})

\* The names of the files the settled writes and commands were told to write.
WrittenNames == {OutputOf(op) : op \in {o \in Settled : o.op \in {"writeFile", "exec"}}}

DoneStatus == "Done. Press play!"
IsFailureStatus(s) ==
  \/ s = "Failed to process clips."
  \/ Len(s) >= Len("Failed: ") /\ SubSeq(s, 1, Len("Failed: ")) = "Failed: "

\* --------------------------------------------------------------- claims
\* C1: every run that ends in Failed has executed the ledger drain, and did so
\* before the failure message was written to the status channel.
C1_FailedRunDrained == pc = "Failed" => drainRuns >= 1

\* C2: when the fetch of clip k fails after the clips before k were written, the
\* run ends in Failed with no probe or normalization command issued, the status
\* holds a non-empty failure message, and raw-0 .. raw-(k-1) are gone from the
\* store.
C2_FetchFailureCleansUp ==
  (pc = "Failed" /\ failedAt = "fetch") =>
     /\ \A op \in Issued : op.op # "exec"
     /\ status # "" /\ IsFailureStatus(status)
     /\ \A j \in 0..(i - 1) : RawName(j) \notin DOMAIN store

\* C3: when the drain starts the ledger holds every file name written during the
\* run by the download step, the prober, the normalizer and the concatenation
\* planner, the final output stitched.mp4 excluded.
C3_LedgerHoldsEveryWrittenName ==
  drainRuns >= 1 => (WrittenNames \ {StitchedName}) \subseteq Range(cleanupFiles)

\* C4: no artifact is deleted while a later stage still needs it: raw-i is
\* deleted only after the normalization command of clip i has completed,
\* stitch-ready-i and concat.txt only after the join command has completed, and
\* the drain starts only after stitched.mp4 was read and the metadata event
\* arrived; while a command is running its inputs are in the store.
C4_NoEarlyDeletion ==
  /\ \A k \in Indexes :
       DeleteFile(RawName(k)) \in Issued => \E op \in NormalizeOps(k) : op \in Settled
  /\ \A k \in Indexes : DeleteFile(OutputName(k)) \in Issued => JoinOp \in Settled
  /\ DeleteFile(ConcatName) \in Issued => JoinOp \in Settled
  /\ drainRuns >= 1 =>
       ReadFile(StitchedName) \in Settled /\ listeners = {} /\ lengthBadge # ""
  /\ \A k \in Indexes :
       (\E op \in NormalizeOps(k) : op \in Range(pending)) => RawName(k) \in DOMAIN store
  /\ JoinOp \in Range(pending) =>
       ConcatName \in DOMAIN store /\ \A k \in Indexes : OutputName(k) \in DOMAIN store
  /\ ReadFile(StitchedName) \in Range(pending) => StitchedName \in DOMAIN store

\* Witness of C4: the drain is running and has already deleted raw-0.mp4.
C4_Witness ==
  /\ pc = "drain"
  /\ DeleteFile(RawName(0)) \in Settled
  /\ RawName(0) \notin DOMAIN store

\* The manifest of the input clips in input order.
ExpectedManifest == [j \in 1..Len(clips) |-> "file '" \o OutputName(j - 1) \o "'"]

\* C5: a run that reaches concatenation writes a manifest with one line per input
\* clip, line j naming stitch-ready-j.mp4, and has normalized every clip exactly
\* once, whichever path each clip took.
C5_ManifestInInputOrder ==
  /\ \A op \in Issued :
       (op.op = "writeFile" /\ OutputOf(op) = ConcatName) =>
          /\ op.data = ExpectedManifest
          /\ \A k \in Indexes : TimesIssued(RemuxOp(k)) + TimesIssued(SynthOp(k)) = 1
  /\ ConcatName \in DOMAIN store => store[ConcatName] = ExpectedManifest
  /\ \A k \in Indexes : TimesIssued(RemuxOp(k)) + TimesIssued(SynthOp(k)) <= 1

\* Witness of C5: the manifest is in the store and the join command is running,
\* after clips took both normalization paths.
C5_Witness ==
  /\ pc = "join"
  /\ ConcatName \in DOMAIN store
  /\ RemuxOp(0) \in Settled
  /\ SynthOp(1) \in Settled

ProbeAwaits == {"probeExec", "probeRead", "probeDelete", "probeCatchDelete"}

\* C6: a failing probe command never aborts the pipeline: whatever the message of
\* the failure, the run does not enter Failed at the probe, clipHasAudio answers
\* "no audio" and the clip is normalized on the synthesis path.
C6_ProbeFailureNeverAborts ==
  /\ [](failedAt \notin ProbeAwaits)
  /\ [][/\ pc \in ProbeAwaits => pc' # "Failed"
        /\ pc = "probeExec" => pc' \in {"probeExec", "probeRead", "probeCatchDelete"}
        /\ pc = "probeCatchDelete" =>
             /\ pc' = "normalize"
             /\ pending' = <<SynthOp(i)>>
             /\ failureWrites' = 0]_vars

\* Witness of C6: the probe of clip 0 failed with a message that names neither
\* "matches no streams" nor "output file is empty" (it was logged as a warning)
\* and the synthesis command of clip 0 is running.
C6_Witness ==
  /\ pc = "normalize" /\ i = 0
  /\ "warn" \in console
  /\ pending = <<SynthOp(0)>>
  /\ ReadFile(ProbeName(0)) \notin Issued

\* The scratch file of the clip being probed is in the store and is not empty.
ScratchNonEmpty == ProbeName(i) \in DOMAIN store /\ Len(store[ProbeName(i)]) > 0

\* The step in which clipHasAudio returns and the normalization command is issued.
ProbeDecided == pc \in {"probeDelete", "probeCatchDelete"} /\ pc' = "normalize"

\* C7 as stated: the outcome is "has audio" (the remux command is issued) iff the
\* scratch file exists and is non-empty after the probe command, and the
\* synthesis command is issued otherwise.
C7_AudioIffScratchNonEmpty ==
  [][ProbeDecided =>
       /\ ScratchNonEmpty => pending' = <<RemuxOp(i)>>
       /\ ~ScratchNonEmpty => pending' = <<SynthOp(i)>>]_vars

\* C7 as amended: the outcome is "has audio" iff the probe command resolved, the
\* read of the scratch file resolved and the scratch file is non-empty; exactly one
\* normalization command is issued per clip, the remux command when the outcome
\* is "has audio" and the synthesis command otherwise.
C7_AudioIffProbeOkAndScratchNonEmpty ==
  /\ [](\A k \in Indexes :
          /\ TimesIssued(RemuxOp(k)) + TimesIssued(SynthOp(k)) <= 1
          /\ (k < i /\ pc \in ProbeAwaits) =>
               TimesIssued(RemuxOp(k)) + TimesIssued(SynthOp(k)) = 1)
  /\ [][ProbeDecided =>
          LET hasAudio == /\ ReadFile(ProbeName(i)) \in Settled
                          /\ data # <<>>
                          /\ ScratchNonEmpty
          IN  /\ hasAudio => pending' = <<RemuxOp(i)>>
              /\ ~hasAudio => pending' = <<SynthOp(i)>>]_vars

\* Witness of C7: clips took both paths; the remux command of clip 1 is running
\* after clip 0 was normalized on the synthesis path.
C7_Witness ==
  /\ pc = "normalize" /\ i = 1
  /\ pending = <<RemuxOp(1)>>
  /\ SynthOp(0) \in Settled

\* C8: a failing normalization command is fatal: no output is substituted for the
\* clip, nothing is issued after the failed command (no later normalization, no
\* join), the player is never bound, and the run is Failed and never Done.
C8_NormalizeFailureFatal ==
  failedAt = "normalize" =>
    /\ pc = "Failed"
    /\ log[Len(log)] \in NormalizeOps(i)
    /\ Len(concatSources) = i
    /\ OutputName(i) \notin Range(concatSources) \cup Range(cleanupFiles)
    /\ \A k \in Indexes : k > i => ProbeOp(k) \notin Issued /\ NormalizeOps(k) \cap Issued = {}
    /\ JoinOp \notin Issued
    /\ videoSrc = "" /\ objectUrl = ""
    /\ IsFailureStatus(status) /\ status # DoneStatus

\* Witness of C8: the normalization command of clip 1 failed after clip 0 was
\* normalized.
C8_Witness ==
  /\ pc = "Failed" /\ failedAt = "normalize" /\ i = 1
  /\ Len(concatSources) = 1

\* C9: at most one failure message is written per run; when the join command
\* fails stitched.mp4 is never read and the player is never bound; a run that
\* failed never shows the status of success.
C9_OneFailureNoFalseSuccess ==
  /\ failureWrites <= 1
  /\ pc = "Failed" <=> failureWrites = 1
  /\ pc = "Failed" <=> failedAt # ""
  /\ failedAt = "join" =>
       ReadFile(StitchedName) \notin Issued /\ videoSrc = "" /\ objectUrl = ""
  /\ failedAt # "" => status # DoneStatus /\ IsFailureStatus(status)
  /\ status = DoneStatus => pc = "Done" /\ failureWrites = 0

\* Witness of C9: the join command failed and the failure message is shown.
C9_Witness ==
  /\ pc = "Failed" /\ failedAt = "join"
  /\ failureWrites = 1
  /\ IsFailureStatus(status)

\* C10: at most one operation against the engine, its store or the network is
\* outstanding at any time, the deletions of the final cleanup included.
C10_AtMostOneOutstanding == Len(pending) <= 1

\* ------------------------------------------------------- pipeline stages
\* The stage of spec 4.5 the handler is in, as its position in the sequence Idle,
\* EngineLoading, Downloading, Normalizing(0) .. Normalizing(n-1), Concatenating,
\* Presenting, Done.  The final drain runs between presentResult and the Done
\* status and is counted with Presenting.
StageRank(p, k) ==
  CASE p = "Idle" -> 0
    [] p = "load" -> 1
    [] p \in {"fetch", "writeRaw"} -> 2
    [] p \in {"probeExec", "probeRead", "probeDelete", "probeCatchDelete", "normalize"} -> 3 + k
    [] p \in {"writeManifest", "join", "manifestDelete"} -> 3 + Len(clips)
    [] p \in {"readStitched", "metadata", "drain"} -> 4 + Len(clips)
    [] p = "Done" -> 5 + Len(clips)
    [] OTHER -> 0 - 1

Terminal == {"Done", "Failed"}

\* C11: a run visits the stages in the order Idle, EngineLoading, Downloading,
\* Normalizing(0), ..., Normalizing(n-1), Concatenating, Presenting, Done, one
\* after the other; the only other transition leads from a non-terminal stage to
\* Failed; nothing happens after Done or Failed.
C11_StagesInOrder ==
  [][/\ pc \notin Terminal \cup {"Aborted"}
     /\ \/ pc' = "Failed"
        \/ StageRank(pc', i') = StageRank(pc, i)
        \/ StageRank(pc', i') = StageRank(pc, i) + 1]_vars

\* Witness of C11: a run went through every stage and is Done.
C11_Witness ==
  /\ pc = "Done"
  /\ \A k \in Indexes : NormalizeOps(k) \cap Settled # {}
  /\ JoinOp \in Settled

\* ------------------------------------------------ the drain on its own
\* The drain of line 72 applied to any ledger and any store, up to MaxDrains
\* times in a row.
MaxDrains == 2

\* The files the store may hold and the names the ledger may hold; the probe
\* scratch file is a ledger entry that is never in the store.
DrainStoreNames == {RawName(0), OutputName(0), StitchedName}
DrainLedgerNames == {RawName(0), OutputName(0), ProbeName(0)}
DrainLedgers ==
  {l \in UNION {[1..n -> DrainLedgerNames] : n \in 0..Cardinality(DrainLedgerNames)} :
     \A a, b \in 1..Len(l) : a # b => l[a] # l[b]}

InitDrain ==
  /\ pc = "Ledger"
  /\ ffmpegReady = TRUE
  /\ objectUrl = ""
  /\ liveUrls = {}
  /\ \E present \in SUBSET DrainStoreNames : store = [f \in present |-> MediaBytes(f)]
  /\ pending = <<>>
  /\ status = ""
  /\ lengthBadge = ""
  /\ videoSrc = ""
  /\ listeners = {}
  /\ written = <<>>
  /\ rawFiles = <<>>
  /\ cleanupFiles \in DrainLedgers
  /\ concatSources = <<>>
  /\ i = 0
  /\ data = <<>>
  /\ error = NonError
  /\ console = {}
  /\ log = <<>>
  /\ failedAt = ""
  /\ failureWrites = 0
  /\ drainRuns = 0
  /\ deleteFaults = 0

\* A call of the drain: the first one, or one more after the last one finished.
DrainCall ==
  /\ pc \in {"Ledger", "Done"}
  /\ drainRuns < MaxDrains
  /\ drain
  /\ UNCHANGED <<ffmpegReady, store, console, deleteFaults, loopVars, domVars,
                 probeVars, failedAt, failureWrites>>

NextDrain ==
  \/ DrainCall
  \/ DrainDeleteSettled

SpecDrain == InitDrain /\ [][NextDrain]_vars

\* C12: the drain is idempotent: it raises no error, whether or not the files of
\* the ledger are in the store; once a drain in which no deleteFile failed on an
\* existing file is over, no ledger entry is in the store and draining the same
\* ledger again leaves the store as it is; files outside the ledger are never
\* touched.
C12_DrainIdempotent ==
  /\ [](pc # "Failed" /\ failureWrites = 0)
  /\ []((pc = "Done" /\ deleteFaults = 0) => Range(cleanupFiles) \cap DOMAIN store = {})
  /\ [][/\ (drainRuns >= 1 /\ drainRuns' >= 2 /\ deleteFaults' = 0) => store' = store
        /\ \A f \in DOMAIN store \ Range(cleanupFiles) :
             f \in DOMAIN store' /\ store'[f] = store[f]
        /\ DOMAIN store' \subseteq DOMAIN store]_vars

\* Witness of C12: a ledger of three names, one of them never in the store, was
\* drained twice; the file outside the ledger is still there.
C12_Witness ==
  /\ pc = "Done" /\ drainRuns = 2 /\ deleteFaults = 0
  /\ Len(cleanupFiles) = 3
  /\ DOMAIN store = {StitchedName}

\* ------------------------------------------------ engine initialisation
EngineKinds == {"exec", "writeFile", "readFile", "deleteFile"}
EngineCommands == {op \in Issued : op.op \in EngineKinds}

\* C13: the engine is initialised exactly once and before use: load is issued at
\* most once; whenever an engine command has been issued, load has completed
\* successfully and the readiness flag is set; the flag is set only after a
\* successful load; a failed load leaves the flag false and the run Failed with
\* no engine command issued.
C13_EngineInitialisedOnce ==
  /\ TimesIssued(Load) <= 1
  /\ EngineCommands # {} => ffmpegReady /\ Load \in Settled /\ failedAt # "load"
  /\ ffmpegReady => Load \in Settled /\ failedAt # "load"
  /\ failedAt = "load" => ~ffmpegReady /\ pc = "Failed" /\ EngineCommands = {}

\* Witness of C13: a run that loaded the engine and went on to issue commands.
C13_Witness ==
  /\ ffmpegReady
  /\ pc = "probeExec"
  /\ \E op \in EngineCommands : op.op = "writeFile"

\* ------------------------------------------------ the audio target profile
\* The value the engine takes for an output option: the argument that follows
\* the last occurrence of the flag ("" when the flag is absent).
OptionValue(args, flag) ==
  LET at == {n \in 1..(Len(args) - 1) : args[n] = flag}
  IN  IF at = {} THEN "" ELSE args[(CHOOSE n \in at : \A m \in at : m <= n) + 1]

\* Codec, sample rate and channel count a command asks for its output's audio.
AudioProfile(args) ==
  <<OptionValue(args, "-c:a"), OptionValue(args, "-ar"), OptionValue(args, "-ac")>>
TargetProfile == <<"aac", "48000", "2">>

\* The command takes its audio from the silence source as second input, its
\* video from the clip, and stops at the shorter of the two.
SynthesizesSilence(args) ==
  /\ \E n \in 3..(Len(args) - 1) :
       /\ args[n - 2] = "-f" /\ args[n - 1] = "lavfi"
       /\ args[n] = "-i" /\ args[n + 1] = AUDIO_SOURCE
  /\ \E n \in 1..(Len(args) - 1) : args[n] = "-map" /\ args[n + 1] = "0:v:0"
  /\ \E n \in 1..(Len(args) - 1) : args[n] = "-map" /\ args[n + 1] = "1:a:0"
  /\ "-shortest" \in Range(args)

\* The commands issued so far that write a normalized clip.
NormalizeCommands ==
  {op \in Issued : op.op = "exec" /\ \E k \in Indexes : OutputOf(op) = OutputName(k)}

\* C14: every command that writes a normalized clip asks for the same audio
\* profile (AAC, 48000 Hz, 2 channels) and copies the video, whichever path it
\* is on; every entry of the manifest's sources is the output of such a command
\* that completed; a command that is not the remux of a clip classified "has
\* audio" takes its audio from the silence source and is cut to the shorter
\* input.
C14_SameAudioProfile ==
  /\ \A op \in NormalizeCommands :
       /\ AudioProfile(op.args) = TargetProfile
       /\ OptionValue(op.args, "-c:v") = "copy"
       /\ (\A k \in Indexes : op # RemuxOp(k)) => SynthesizesSilence(op.args)
  /\ \A n \in 1..Len(concatSources) :
       \E op \in NormalizeCommands \cap Settled :
         /\ op \in NormalizeOps(n - 1)
         /\ OutputOf(op) = concatSources[n]

\* Witness of C14: both clips are normalized, clip 0 on the remux path and
\* clip 1 on the synthesis path after an inconclusive probe.
C14_Witness ==
  /\ pc = "writeManifest"
  /\ Len(concatSources) = Len(clips)
  /\ RemuxOp(0) \in Settled
  /\ SynthOp(1) \in Settled
  /\ "warn" \in console

\* ------------------------------------------------ deletion errors
\* The awaits of safeDelete: lines 163, 166, 181 and 72.
DeleteAwaits == {"probeDelete", "probeCatchDelete", "manifestDelete", "drain"}

\* C15: deletion errors are swallowed and never change the outcome of a run: no
\* run fails at a deletion, whether of a probe scratch file, of the manifest or
\* of a ledger entry; while the drain is going on the remaining deletions are
\* still outstanding, and at Done the deletion of every ledger entry was issued
\* and has settled, however many of them failed; a failure message is written
\* at most once and none is written in a run in which only deletions failed.
C15_DeletionErrorsSwallowed ==
  /\ failedAt \notin DeleteAwaits
  /\ failureWrites <= 1
  /\ pc \in DeleteAwaits => pending # <<>> /\ failureWrites = 0
  /\ pc \in {"drain", "Done"} =>
       \A f \in Range(cleanupFiles) : DeleteFile(f) \in Issued
  /\ pc = "Done" =>
       /\ failureWrites = 0 /\ status = DoneStatus
       /\ \A f \in Range(cleanupFiles) : DeleteFile(f) \in Settled

\* Witness of C15: the deletion of the first ledger entry failed on a file that
\* exists, the entries after it were deleted and the run is Done.
C15_Witness ==
  /\ pc = "Done" /\ deleteFaults = 1
  /\ cleanupFiles[1] \in DOMAIN store
  /\ \A k \in 2..Len(cleanupFiles) : cleanupFiles[k] \notin DOMAIN store

\* ------------------------------------------------ the manifest
ManifestWrites == {n \in 1..Len(log) : log[n].op = "writeFile" /\ OutputOf(log[n]) = ConcatName}
JoinCommands == {n \in 1..Len(log) : log[n] = JoinOp}

\* C16: the manifest concat.txt is written at most once and consumed by at most
\* one join command, issued after the write; at the end of a run that wrote it,
\* whether the join command succeeded or failed, concat.txt is no longer in the
\* store (unless its own deleteFile failed).
C16_ManifestWrittenOnceAndDeleted ==
  /\ Cardinality(ManifestWrites) <= 1
  /\ Cardinality(JoinCommands) <= 1
  /\ \A j \in JoinCommands : \E w \in ManifestWrites : w < j /\ log[w] \in Settled
  /\ (pc \in Terminal /\ ManifestWrites # {} /\ deleteFaults = 0) =>
       ConcatName \notin DOMAIN store

\* ------------------------------------------------ the probe's footprint
\* A step of clipHasAudio touches no file other than the clip's scratch file.
ProbeFrame ==
  pc \in ProbeAwaits =>
    /\ DOMAIN store' \subseteq DOMAIN store \cup {ProbeName(i)}
    /\ \A f \in DOMAIN store \ {ProbeName(i)} :
         f \in DOMAIN store' /\ store'[f] = store[f]

\* C17 as stated: when clipHasAudio returns the scratch file is not in the store,
\* whatever the outcome of the probe, and the probe has changed no other file.
C17_ProbeLeavesNoTrace ==
  [][/\ ProbeFrame
     /\ ProbeDecided => ProbeName(i) \notin DOMAIN store']_vars

\* C17 as amended: when clipHasAudio returns the scratch file is not in the store
\* unless the deleteFile of the scratch file itself failed on the existing file,
\* and the probe has changed no other file.
C17_ProbeLeavesNoTraceUnlessDeleteFailed ==
  [][/\ ProbeFrame
     /\ ProbeDecided =>
          \/ ProbeName(i) \notin DOMAIN store'
          \/ /\ ProbeName(i) \in DOMAIN store
             /\ deleteFaults' = deleteFaults + 1
             /\ store' = store]_vars

\* Witness of C17: both probes have returned, the second one after reading data
\* from its scratch file; no scratch file is left and both clips' files are there.
C17_Witness ==
  /\ pc = "normalize" /\ i = 1 /\ deleteFaults = 0
  /\ pending = <<RemuxOp(1)>>
  /\ RemuxOp(0) \in Settled
  /\ \A k \in Indexes : ProbeName(k) \notin DOMAIN store /\ RawName(k) \in DOMAIN store

\* ------------------------------------------------ the deliverable
\* The awaits after the join command resolved.
AfterJoin == {"manifestDelete", "readStitched", "metadata", "drain", "Done"}

\* C18: when a run reaches Done and no deleteFile failed on an existing file, the
\* store holds exactly stitched.mp4; stitched.mp4 is never in the ledger, no
\* deleteFile is ever issued for it, and from the moment the join command
\* resolved it stays in the store.
C18_OnlyDeliverableLeft ==
  /\ (pc = "Done" /\ deleteFaults = 0) => DOMAIN store = {StitchedName}
  /\ StitchedName \notin Range(cleanupFiles)
  /\ DeleteFile(StitchedName) \notin Issued
  /\ pc \in AfterJoin => StitchedName \in DOMAIN store /\ store[StitchedName] # EmptyBytes

\* Witness of C18: a run is Done in which every deleteFile succeeded (each probe
\* left a scratch file with data) and stitched.mp4 is the only file left.
C18_Witness ==
  /\ pc = "Done" /\ deleteFaults = 0
  /\ \A k \in Indexes : RemuxOp(k) \in Settled
  /\ DOMAIN store = {StitchedName}

\* ------------------------------------------------ the status channel
\* A step that settles nothing and moves the handler nowhere: a progress event.
ProgressStep == pc' = pc /\ pending' = pending

Settle ==
  \/ DOMContentLoaded
  \/ LoadResolved
  \/ FetchResolved
  \/ WriteRawResolved
  \/ ProbeExecResolved
  \/ ProbeExecRejected
  \/ ProbeReadSettled
  \/ ProbeDeleteSettled
  \/ ProbeCatchDeleteSettled
  \/ NormalizeResolved
  \/ WriteManifestResolved
  \/ JoinResolved
  \/ ManifestDeleteSettled
  \/ ReadStitchedResolved
  \/ onLoaded
  \/ onError
  \/ DrainDeleteSettled
  \/ Rejected

\* The handler on its own, with every awaited operation eventually completing
\* or failing and the player eventually firing 'loadedmetadata' or 'error'.
\* Progress events are left out: they change the status and nothing else.
FairSpec == Init /\ [][Settle]_vars /\ WF_vars(Settle)

Running == pc \notin Terminal \cup {"Idle", "Aborted"}

\* C20: provided every awaited operation eventually completes or fails and the
\* player eventually fires one of its two events, a run that has started
\* eventually reaches Done or Failed; the metadata wait is left in one step, to
\* the drain, Done or Failed, that finds both listeners registered and removes
\* both, and no listener is registered outside the wait, so the wait settles
\* exactly once.
C20_RunTerminates ==
  /\ Running ~> (pc \in Terminal)
  /\ [](listeners = IF pc = "metadata" THEN {"loadedmetadata", "error"} ELSE {})
  /\ [][(pc = "metadata" /\ pc' # "metadata") =>
          listeners' = {} /\ pc' \in {"drain", "Done", "Failed"}]_vars

\* Witness of C20: the run is Done after the metadata wait was settled by
\* 'loadedmetadata' (the length badge is written) and the listeners are gone.
C20_Witness ==
  /\ pc = "Done"
  /\ lengthBadge # ""
  /\ listeners = {}
====
